---- MODULE Spec2Model ----
(***************************************************************************)
(* State-machine model of the JNI bridge in src/native/llama_jni.cpp:      *)
(* the handle registry (g_contexts, g_next_handle, the two mutexes), the   *)
(* LlamaContext objects and their destructor, and the four entry points    *)
(* nativeLoadModel, nativeGenerateText, nativeGetModelInfo, nativeCleanup, *)
(* called concurrently by several threads.  The inference engine (llama.h) *)
(* is external: its results are nondeterministic where it may fail and a   *)
(* fixed function of its inputs where it computes.                         *)
(***************************************************************************)
EXTENDS Integers, Sequences, FiniteSets, TLC

(* ---------------------------- bounds ----------------------------------- *)
\* number of caller threads
NThreads == 2
\* number of LlamaContext objects the heap has room for in one run
MaxLoads == 2
\* the same room when one caller is followed through long generations
SeqLoads == 1

(* ----------------------- program constants ----------------------------- *)
DefaultContextSize == 2048
DefaultMaxTokens == 256
MaxBatch == 512
DefaultThreads == 4
InitialHandle == 1

(* ----------------------------- domains --------------------------------- *)
Threads == 1..NThreads
Objs == 1..MaxLoads
NULL == 0
\* handle values callers pass: 0, and values load can return in this run
HandleArgs == 0..MaxLoads
\* jstring modelPath: a null reference, the empty string, a model file
Paths == {"null", "", "m.gguf"}
\* jint contextSize of load
CtxSizes == {4}
\* jint threads of load
ThreadArgs == {-1, 0, 3}
\* std::thread::hardware_concurrency()
HwThreads == {0, 2}
\* jstring prompt: a null reference, the empty string, two texts
Prompts == {"null", "", "a", "ab"}
\* jint maxTokens of generate
MaxTokenArgs == {1}
\* jfloat temperature, jfloat topP (both in tenths), jint topK of generate
Samplings == {[temperature |-> 8, top_p |-> 9, top_k |-> 40]}
SeqSamplings == {[temperature |-> 8, top_p |-> 9, top_k |-> 40],
                 [temperature |-> 0, top_p |-> 1, top_k |-> 1]}
\* the same inputs for a single caller, where longer runs can be followed:
\* context sizes (0 asks for the default), maxTokens around the default
SeqCtxSizes == {0, 4, 6}
SeqMaxTokenArgs == {-1, 0, 1, 3, 256, 300}
\* arguments for the parameter computation and the selection taken alone
ProbeThreadArgs == {-3, -2, -1, 0, 1, 3}
ProbeHwThreads == {0, 1, 2, 8}
ProbeScores == {-1, 0, 2}
\* the vocabulary of the model file: token ids 0 .. NVocab-1
NVocab == 4
Vocab == 0..(NVocab - 1)
BosToken == 1
EogToken == 2

Min(a, b) == IF a <= b THEN a ELSE b

VARIABLES
  pc,                    \* position of each thread inside its current call
  fr,                    \* arguments and locals of each thread's current call
  g_contexts,            \* registry: handle -> LlamaContext object (NULL: absent)
  g_contexts_mutex,      \* owner of g_contexts_mutex (0: free)
  g_next_handle,
  g_backend_initialized,
  g_init_mutex,          \* owner of g_init_mutex (0: free)
  heap,                  \* the LlamaContext objects
  nextObj,               \* next LlamaContext to be allocated by make_unique
  engine,                \* the engine's view of what each object acquired
  backendInits,          \* number of llama_backend_init() calls made
  issued,                \* handles returned by load, in order of issuance
  cleaned,               \* handles for which a cleanup call has returned
  relLog,                \* per object: the release events of its destruction
  crashed,               \* the process died of a fault outside try/catch
  probe                  \* a pure function applied on its own: input and result

vars == <<pc, fr, g_contexts, g_contexts_mutex, g_next_handle,
          g_backend_initialized, g_init_mutex, heap, nextObj, engine,
          backendInits, issued, cleaned, relLog, crashed, probe>>

regVars == <<g_contexts, g_next_handle>>
initVars == <<g_backend_initialized, backendInits>>
ghostVars == <<issued, cleaned, relLog>>

(* ------------------------- records of the state ------------------------ *)
\* LlamaContext(): model(nullptr), context(nullptr), empty token vector
NewLlamaContext ==
  [alloc |-> TRUE, model |-> NULL, context |-> NULL, tokens |-> <<>>,
   freed |-> FALSE, handle |-> 0]

NoObject ==
  [alloc |-> FALSE, model |-> NULL, context |-> NULL, tokens |-> <<>>,
   freed |-> FALSE, handle |-> 0]

\* what the engine holds for one object: a model, a context, its parameters
\* and its attention cache (the tokens decoded since the last clear, each
\* with the position it was submitted at)
NoEngine ==
  [model |-> "none", context |-> "none", n_ctx |-> 0, n_batch |-> 0,
   kv |-> <<>>, modelFrees |-> 0, ctxFrees |-> 0]

NoRet == [kind |-> "none", val |-> 0]

\* jfloat temperature, jfloat topP, jint topK of generate when not given
NoSampling == [temperature |-> 0, top_p |-> 0, top_k |-> 0]

NoProbe == [fn |-> "none", arg |-> <<>>, res |-> <<>>]

IdleFrame ==
  [op |-> "none", handle |-> 0, path |-> "null",
   prompt |-> "null", maxTokens |-> 0,
   argMaxTokens |-> 0, ctx |-> NULL, n_ctx |-> 0, n_tokens |-> 0, i |-> 0,
   max_gen_tokens |-> 0, batch_n |-> 0, pos |-> <<>>, result |-> <<>>,
   sampling |-> NoSampling, prior |-> FALSE, stop |-> "none",
   after |-> FALSE, ret |-> NoRet]

Init ==
  /\ pc = [t \in Threads |-> "idle"]
  /\ fr = [t \in Threads |-> IdleFrame]
  /\ g_contexts = [h \in 1..(MaxLoads + 1) |-> NULL]
  /\ g_contexts_mutex = 0
  /\ g_next_handle = InitialHandle
  /\ g_backend_initialized = FALSE
  /\ g_init_mutex = 0
  /\ heap = [o \in Objs |-> NoObject]
  /\ nextObj = 1
  /\ engine = [o \in Objs |-> NoEngine]
  /\ backendInits = 0
  /\ issued = <<>>
  /\ cleaned = {}
  /\ relLog = [o \in Objs |-> <<>>]
  /\ crashed = FALSE
  /\ probe = NoProbe

(* --------------------------- small helpers ----------------------------- *)
Goto(t, l) == pc' = [pc EXCEPT ![t] = l]

\* a call returns value r: the thread stops at "ret" with the value visible;
\* the locals of the call are gone
ReturnWith(t, r) ==
  /\ pc' = [pc EXCEPT ![t] = "ret"]
  /\ fr' = [fr EXCEPT ![t] = [IdleFrame EXCEPT !.op = fr[t].op,
                                               !.path = fr[t].path,
                                               !.handle = fr[t].handle,
                                               !.after = fr[t].after,
                                               !.ret = r]]

\* generate returns r, and why it stopped is remembered with the value
StopWith(t, r, why) ==
  /\ pc' = [pc EXCEPT ![t] = "ret"]
  /\ fr' = [fr EXCEPT ![t] = [IdleFrame EXCEPT !.op = fr[t].op,
                                               !.handle = fr[t].handle,
                                               !.after = fr[t].after,
                                               !.stop = why,
                                               !.ret = r]]

\* the set of handles load has returned so far
IssuedHandles == {issued[k].h : k \in 1..Len(issued)}

HandleRet(h) == [kind |-> "handle", val |-> h]
ErrorRet(msg) == [kind |-> "error", val |-> msg]
TextRet(s) == [kind |-> "text", val |-> s]
ReportRet(s) == [kind |-> "report", val |-> s]
VoidRet == [kind |-> "void", val |-> 0]

\* std::lock_guard<std::mutex> on g_init_mutex / g_contexts_mutex can proceed
InitLockBroken == TRUE
InitLockAvailable == g_init_mutex = 0

ContextsLockBroken == TRUE
ContextsLockAvailable == g_contexts_mutex = 0

(* ===================== LlamaContext::~LlamaContext ===================== *)
\* One LlamaContext as the destructor sees it: the object (h), what the
\* engine holds for it (e) and the release events so far (log).
ObjState(o) == [h |-> heap[o], e |-> engine[o], log |-> relLog[o]]

\* llama_free(context); context = nullptr;
FreeContext(s) ==
  [h |-> [s.h EXCEPT !.context = NULL],
   e |-> [s.e EXCEPT !.context = "freed", !.ctxFrees = @ + 1,
                     !.n_ctx = 0, !.n_batch = 0, !.kv = <<>>],
   log |-> Append(s.log, "ctx")]

\* llama_model_free(model); model = nullptr;
FreeModel(s) ==
  [h |-> [s.h EXCEPT !.model = NULL],
   e |-> [s.e EXCEPT !.model = "freed", !.modelFrees = @ + 1],
   log |-> Append(s.log, "model")]

\* tokens.clear();
ClearTokens(s) ==
  [h |-> [s.h EXCEPT !.tokens = <<>>], e |-> s.e, log |-> Append(s.log, "tokens")]

\* the members are destroyed and the object's memory is given back
Deallocate(s) ==
  [h |-> [s.h EXCEPT !.freed = TRUE], e |-> s.e, log |-> Append(s.log, "discard")]

\* LlamaContext::cleanup(), lines 27-37
CleanupBody(s) ==
  LET s1 == IF s.h.context # NULL THEN FreeContext(s) ELSE s
      s2 == IF s1.h.model # NULL THEN FreeModel(s1) ELSE s1
  IN ClearTokens(s2)

\* ~LlamaContext() on an object no other thread can reach
DestroyWithoutCleanup(s) == Deallocate(s)
Destroy(s) == Deallocate(CleanupBody(s))

\* the object o becomes what the destructor state s says
SetObj(o, s) ==
  /\ heap' = [heap EXCEPT ![o] = s.h]
  /\ engine' = [engine EXCEPT ![o] = s.e]
  /\ relLog' = [relLog EXCEPT ![o] = s.log]

\* The erase of nativeCleanup destroys an object that other threads may still
\* point to, so its destructor is taken one statement at a time.

\* if (context != nullptr)
DtorCheckContextSkipped(t) ==
  /\ pc[t] = "D_chk_ctx"
  /\ Goto(t, "D_chk_model")
  /\ UNCHANGED <<fr, regVars, g_contexts_mutex, initVars, g_init_mutex, heap,
                 nextObj, engine, ghostVars, crashed>>
DtorCheckContext(t) ==
  /\ pc[t] = "D_chk_ctx"
  /\ Goto(t, IF heap[fr[t].ctx].context # NULL THEN "D_free_ctx" ELSE "D_chk_model")
  /\ UNCHANGED <<fr, regVars, g_contexts_mutex, initVars, g_init_mutex, heap,
                 nextObj, engine, ghostVars, crashed>>

DtorFreeContext(t) ==
  /\ pc[t] = "D_free_ctx"
  /\ SetObj(fr[t].ctx, FreeContext(ObjState(fr[t].ctx)))
  /\ Goto(t, "D_chk_model")
  /\ UNCHANGED <<fr, regVars, g_contexts_mutex, initVars, g_init_mutex,
                 nextObj, issued, cleaned, crashed>>

\* if (model != nullptr)
DtorCheckModel(t) ==
  /\ pc[t] = "D_chk_model"
  /\ Goto(t, IF heap[fr[t].ctx].model # NULL THEN "D_free_model" ELSE "D_clear")
  /\ UNCHANGED <<fr, regVars, g_contexts_mutex, initVars, g_init_mutex, heap,
                 nextObj, engine, ghostVars, crashed>>

DtorFreeModel(t) ==
  /\ pc[t] = "D_free_model"
  /\ SetObj(fr[t].ctx, FreeModel(ObjState(fr[t].ctx)))
  /\ Goto(t, "D_clear")
  /\ UNCHANGED <<fr, regVars, g_contexts_mutex, initVars, g_init_mutex,
                 nextObj, issued, cleaned, crashed>>

DtorClearTokens(t) ==
  /\ pc[t] = "D_clear"
  /\ SetObj(fr[t].ctx, ClearTokens(ObjState(fr[t].ctx)))
  /\ Goto(t, "D_dealloc")
  /\ UNCHANGED <<fr, regVars, g_contexts_mutex, initVars, g_init_mutex,
                 nextObj, issued, cleaned, crashed>>

DtorDeallocate(t) ==
  /\ pc[t] = "D_dealloc"
  /\ SetObj(fr[t].ctx, Deallocate(ObjState(fr[t].ctx)))
  /\ Goto(t, "C_unlock")
  /\ UNCHANGED <<fr, regVars, g_contexts_mutex, initVars, g_init_mutex,
                 nextObj, issued, cleaned, crashed>>

(* ========================== nativeLoadModel ============================ *)
\* a caller thread enters nativeLoadModel(modelPath, contextSize, threads)
LoadCall(t) ==
  /\ pc[t] = "idle"
  /\ fr' = [fr EXCEPT ![t] = [IdleFrame EXCEPT !.op = "load"]]
  /\ Goto(t, "L_lock")
  /\ UNCHANGED <<regVars, g_contexts_mutex, initVars, g_init_mutex, heap,
                 nextObj, engine, ghostVars, crashed>>

\* std::lock_guard<std::mutex> init_lock(g_init_mutex);
\* if (!g_backend_initialized) ... ; the scope ends at once when the flag is set
LoadInitLock(t) ==
  /\ pc[t] = "L_lock"
  /\ InitLockAvailable
  /\ IF ~g_backend_initialized
       THEN g_init_mutex' = t /\ Goto(t, "L_init")
       ELSE g_init_mutex' = g_init_mutex /\ Goto(t, "L_build")
  /\ UNCHANGED <<fr, regVars, g_contexts_mutex, initVars, heap, nextObj,
                 engine, ghostVars, crashed>>

\* llama_backend_init(); g_backend_initialized = true; end of the lock scope
LoadBackendInit(t) ==
  /\ pc[t] = "L_init"
  /\ backendInits' = backendInits + 1
  /\ g_backend_initialized' = TRUE
  /\ g_init_mutex' = 0
  /\ Goto(t, "L_build")
  /\ UNCHANGED <<fr, regVars, g_contexts_mutex, heap, nextObj, engine,
                 ghostVars, crashed>>

\* modelPath == nullptr, or jstring_to_string(modelPath).empty()
PathInvalid(p) == p = "null" \/ p = ""

\* if (contextSize <= 0) contextSize = 2048;
NormContextSize(cs) == IF cs <= 0 THEN DefaultContextSize ELSE cs

\* ctx_params.n_batch = std::min(512, contextSize / 4);
BatchSize(cs) == Min(MaxBatch, cs \div 4)

\* the thread count of lines 145-157, hw = std::thread::hardware_concurrency()
ThreadCountUnchecked(th, hw) ==
  IF th > 0 THEN th ELSE IF th = -1 THEN hw ELSE DefaultThreads
ThreadCount(th, hw) ==
  IF th > 0 THEN th
  ELSE IF th = -1 THEN (IF hw > 0 THEN hw ELSE DefaultThreads)
  ELSE DefaultThreads

\* ctx_params.n_threads_batch of lines 147, 152, 156
ThreadCountBatch(th, hw) ==
  IF th > 0 THEN th
  ELSE IF th = -1 THEN ThreadCount(th, hw)
  ELSE DefaultThreads

\* the llama_context_params of lines 140-157
ContextParams(cs, th, hw) ==
  [n_ctx |-> NormContextSize(cs), n_batch |-> BatchSize(NormContextSize(cs)),
   n_threads |-> ThreadCount(th, hw),
   n_threads_batch |-> ThreadCountBatch(th, hw)]

\* if (ctx->model == nullptr) return 0;
ModelLoadFailed(m) == m = NULL

\* if (ctx->context == nullptr) return 0;
ContextInitFailedIgnored(c) == FALSE
ContextInitFailed(c) == c = NULL

\* the object of a load after llama_model_load_from_file returned m
WithModel(s, m) ==
  [s EXCEPT !.h.model = m, !.e.model = IF m # NULL THEN "live" ELSE @]

\* the object of a load after llama_init_from_model(params) returned c
WithContext(s, c, params) ==
  IF c = NULL THEN s
  ELSE [s EXCEPT !.h.context = c, !.e.context = "live",
                 !.e.n_ctx = params.n_ctx, !.e.n_batch = params.n_batch]

\* "return 0" (or a caught exception) while the local unique_ptr owns the
\* object: the destructor runs on the way out
LoadFails(t, o, s) ==
  /\ SetObj(o, Destroy(s))
  /\ pc' = [pc EXCEPT ![t] = "ret"]
  /\ fr' = [fr EXCEPT ![t] = [IdleFrame EXCEPT !.op = "load", !.ctx = o,
                                               !.path = "m.gguf",
                                               !.ret = HandleRet(0)]]

\* lines 110-166, all on data only this thread can reach: the path is
\* validated, the object made, the model loaded, the context initialised,
\* the token vector reserved.  The engine may fail at either call and the
\* allocations may throw.  The heap has room for `room' objects.
LoadBuild(t, room, paths, ctxSizes, threadArgs, hwThreads) ==
  LET o == nextObj
      s0 == [h |-> NewLlamaContext, e |-> NoEngine, log |-> <<>>]
  IN
  /\ pc[t] = "L_build"
  /\ \E p \in paths :
       \/ /\ PathInvalid(p)
          /\ pc' = [pc EXCEPT ![t] = "ret"]
          /\ fr' = [fr EXCEPT ![t].path = p, ![t].ret = HandleRet(0)]
          /\ UNCHANGED <<heap, nextObj, engine, relLog>>
       \/ \* make_unique throws std::bad_alloc, caught: return 0
          /\ ~PathInvalid(p)
          /\ pc' = [pc EXCEPT ![t] = "ret"]
          /\ fr' = [fr EXCEPT ![t].path = p, ![t].ret = HandleRet(0)]
          /\ UNCHANGED <<heap, nextObj, engine, relLog>>
       \/ /\ ~PathInvalid(p)
          /\ nextObj <= room
          /\ nextObj' = nextObj + 1
          /\ \E m \in {NULL, 1}, c \in {NULL, 1}, cs \in ctxSizes,
                th \in threadArgs, hw \in hwThreads, reserved \in BOOLEAN :
               LET s1 == WithModel(s0, m)
                   s2 == WithContext(s1, c, ContextParams(cs, th, hw))
               IN IF ModelLoadFailed(m) THEN LoadFails(t, o, s1)
                  ELSE IF ContextInitFailed(c) THEN LoadFails(t, o, s2)
                  ELSE IF ~reserved THEN LoadFails(t, o, s2)
                  ELSE /\ SetObj(o, s2)
                       /\ fr' = [fr EXCEPT ![t].ctx = o, ![t].path = p]
                       /\ Goto(t, "L_reg")
  /\ UNCHANGED <<regVars, g_contexts_mutex, initVars, g_init_mutex, issued,
                 cleaned, crashed>>

\* g_next_handle++ leaves the counter one higher
NextHandleStuck(h) == h
NextHandle(h) == h + 1

\* lines 169-174 under g_contexts_mutex: jlong handle = g_next_handle++;
\* g_contexts[handle] = std::move(ctx); return handle;
LoadRegister(t) ==
  LET o == fr[t].ctx
      handle == g_next_handle
  IN
  /\ pc[t] = "L_reg"
  /\ ContextsLockAvailable
  /\ g_next_handle' = NextHandle(handle)
  /\ \/ /\ g_contexts' = [g_contexts EXCEPT ![handle] = o]
        /\ heap' = [heap EXCEPT ![o].handle = handle]
        /\ issued' = Append(issued, [h |-> handle, t |-> t])
        /\ pc' = [pc EXCEPT ![t] = "ret"]
        /\ fr' = [fr EXCEPT ![t] = [IdleFrame EXCEPT !.op = "load",
                                                     !.path = fr[t].path,
                                                     !.ret = HandleRet(handle)]]
        /\ UNCHANGED <<engine, relLog>>
     \/ \* operator[] cannot allocate the map node: std::bad_alloc, caught
        /\ LoadFails(t, o, ObjState(o))
        /\ UNCHANGED <<g_contexts, issued>>
  /\ UNCHANGED <<g_contexts_mutex, initVars, g_init_mutex, nextObj, cleaned,
                 crashed>>

(* ============================ nativeCleanup ============================ *)
\* a caller thread enters nativeCleanup(handle); if (handle == 0) return;
CleanupCall(t) ==
  /\ pc[t] = "idle"
  /\ \E h \in HandleArgs :
       /\ fr' = [fr EXCEPT ![t] = [IdleFrame EXCEPT !.op = "clean", !.handle = h,
                                      !.after = (h \in IssuedHandles),
                                      !.ret = IF h = 0 THEN VoidRet ELSE NoRet]]
       /\ Goto(t, IF h = 0 THEN "ret" ELSE "C_lock")
  /\ UNCHANGED <<regVars, g_contexts_mutex, initVars, g_init_mutex, heap,
                 nextObj, engine, ghostVars, crashed>>

\* auto it = g_contexts.find(handle): the object under that key, if any
CleanupFindFirst(h) ==
  IF \E k \in DOMAIN g_contexts : g_contexts[k] # NULL
    THEN g_contexts[CHOOSE k \in DOMAIN g_contexts : g_contexts[k] # NULL]
    ELSE NULL
CleanupFind(h) == IF h \in DOMAIN g_contexts THEN g_contexts[h] ELSE NULL

\* std::lock_guard<std::mutex> lock(g_contexts_mutex);
\* auto it = g_contexts.find(handle); if (it != g_contexts.end())
CleanupLock(t) ==
  LET h == fr[t].handle IN
  /\ pc[t] = "C_lock"
  /\ ContextsLockAvailable
  /\ g_contexts_mutex' = t
  /\ IF CleanupFind(h) # NULL
       THEN /\ fr' = [fr EXCEPT ![t].ctx = CleanupFind(h)]
            /\ Goto(t, "C_erase")
       ELSE /\ Goto(t, "C_unlock")
            /\ UNCHANGED fr
  /\ UNCHANGED <<regVars, initVars, g_init_mutex, heap, nextObj, engine,
                 ghostVars, crashed>>

\* g_contexts.erase(it): the node leaves the map, then its unique_ptr is
\* destroyed, which runs ~LlamaContext on the object
CleanupEraseKeepsNode(t) ==
  /\ pc[t] = "C_erase"
  /\ Goto(t, "D_chk_ctx")
  /\ UNCHANGED <<fr, regVars, g_contexts_mutex, initVars, g_init_mutex,
                 heap, nextObj, engine, ghostVars, crashed>>
CleanupErase(t) ==
  /\ pc[t] = "C_erase"
  /\ g_contexts' = [g_contexts EXCEPT ![fr[t].handle] = NULL]
  /\ Goto(t, "D_chk_ctx")
  /\ UNCHANGED <<fr, g_next_handle, g_contexts_mutex, initVars, g_init_mutex,
                 heap, nextObj, engine, ghostVars, crashed>>

\* end of the lock scope; the call returns
CleanupUnlock(t) ==
  /\ pc[t] = "C_unlock"
  /\ g_contexts_mutex' = 0
  /\ ReturnWith(t, VoidRet)
  /\ UNCHANGED <<regVars, initVars, g_init_mutex, heap, nextObj, engine,
                 ghostVars, crashed>>

(* ======================= the engine, as consulted ====================== *)
\* the sum of a sequence of numbers, by halves
RECURSIVE SumSeq(_)
SumSeq(s) ==
  IF Len(s) = 0 THEN 0
  ELSE IF Len(s) = 1 THEN s[1]
  ELSE SumSeq(SubSeq(s, 1, Len(s) \div 2))
         + SumSeq(SubSeq(s, Len(s) \div 2 + 1, Len(s)))

\* llama_tokenize(vocab, text, ..., add_bos = true): the token ids of a prompt
TokensOf(prompt) ==
  IF prompt = "a" THEN <<BosToken, 3>>
  ELSE IF prompt = "ab" THEN <<BosToken, 3, 0>>
  ELSE <<BosToken>>

\* llama_tokenize's result for a buffer of cap tokens: the count, or the
\* negated count when the buffer is too small
TokenizeCount(prompt, cap) ==
  IF Len(TokensOf(prompt)) > cap THEN 0 - Len(TokensOf(prompt))
  ELSE Len(TokensOf(prompt))

\* llama_get_logits_ith: the scores the (deterministic) model gives after it
\* has decoded the token sequence hist
Logits(hist) ==
  [i \in Vocab |->
     (i * Len(hist) + 2 * hist[Len(hist)] * (i + 1) + 2 * i * i + SumSeq(hist)) % 3]

\* llama_memory_clear(memory, true): the attention cache is emptied
ClearMemorySkipped(kv) == kv
ClearMemory(kv) == <<>>

\* the tokens the attention cache holds, in the order they were decoded
KvTokens(kv) == [k \in 1..Len(kv) |-> kv[k].tok]

\* llama_decode of a batch: its tokens enter the cache at their positions
Decoded(kv, toks, pos) ==
  kv \o [k \in 1..Len(toks) |-> [tok |-> toks[k], pos |-> pos[k]]]

\* llama_vocab_is_eog(vocab, token)
IsEogNever(tok) == FALSE
IsEog(tok) == tok = EogToken

\* llama_token_to_piece: the text of a token; token 0 has no text
PieceOf(tok) == IF tok = 0 THEN <<>> ELSE <<tok>>

\* the scan of sample_token_greedy from index i on, best being the best so far
RECURSIVE GreedyScan(_, _, _)
GreedyScan(logits, i, best) ==
  IF i >= NVocab THEN best
  ELSE IF logits[i] > logits[best] THEN GreedyScan(logits, i + 1, i)
  ELSE GreedyScan(logits, i + 1, best)

\* sample_token_greedy(ctx, logits) with ctx, model and context non-null
sample_token_last_maximum(logits) ==
  CHOOSE r \in Vocab :
    \A i \in Vocab : logits[i] < logits[r] \/ (logits[i] = logits[r] /\ i <= r)
sample_token_greedy(logits) == GreedyScan(logits, 1, 0)

(* ========================= get_context(handle) ========================= *)
\* lock, find, return the raw pointer (nullptr when absent), unlock
get_context(h) == IF h \in DOMAIN g_contexts THEN g_contexts[h] ELSE NULL

\* the object a raw pointer refers to has been destroyed, or is being
\* destroyed by a concurrent erase: its members are null or its memory is gone
ObjGone(o) ==
  heap[o].freed \/ heap[o].context = NULL \/ heap[o].model = NULL

\* if (ctx == nullptr || ctx->model == nullptr || ctx->context == nullptr)
SessionUnusable(o) ==
  o = NULL \/ heap[o].model = NULL \/ heap[o].context = NULL

(* ========================= nativeGenerateText ========================== *)
\* by the callers' discipline at most one generate is in flight per handle
GenInFlight(h) ==
  \E u \in Threads : fr[u].op = "gen" /\ fr[u].handle = h /\ pc[u] # "ret"

\* a caller thread enters nativeGenerateText(handle, prompt, maxTokens, ...);
\* if (prompt == nullptr || handle == 0) return "Error: Invalid parameters"
GenCall(t) ==
  /\ pc[t] = "idle"
  /\ \E h \in HandleArgs, isnull \in BOOLEAN :
       /\ ~GenInFlight(h)
       /\ LET f == [IdleFrame EXCEPT !.op = "gen", !.handle = h,
                                     !.after = (h \in cleaned)]
          IN IF isnull \/ h = 0
               THEN /\ fr' = [fr EXCEPT ![t] =
                               [f EXCEPT !.ret = ErrorRet("Error: Invalid parameters")]]
                    /\ Goto(t, "ret")
               ELSE /\ fr' = [fr EXCEPT ![t] = f]
                    /\ Goto(t, "G_lookup")
  /\ UNCHANGED <<regVars, g_contexts_mutex, initVars, g_init_mutex, heap,
                 nextObj, engine, ghostVars, crashed>>

\* LlamaContext* ctx = get_context(handle);
GenLookup(t) ==
  /\ pc[t] = "G_lookup"
  /\ ContextsLockAvailable
  /\ fr' = [fr EXCEPT ![t].ctx = get_context(fr[t].handle)]
  /\ Goto(t, "G_input")
  /\ UNCHANGED <<regVars, g_contexts_mutex, initVars, g_init_mutex, heap,
                 nextObj, engine, ghostVars, crashed>>

\* if (maxTokens <= 0) maxTokens = 256;
NormMaxTokens(m) == IF m <= 0 THEN DefaultMaxTokens ELSE m

\* const int max_input_tokens = llama_n_ctx(ctx->context) / 2;
MaxInputTokens(n_ctx) == n_ctx \div 2

\* lines 194-235: the null checks; then the prompt is read, maxTokens
\* normalised, the history and the attention cache cleared, the history
\* resized to max_input_tokens, the prompt tokenized into it, the history
\* resized to the count
GenPrepare(t, prompts, maxTokenArgs, samplings) ==
  LET o == fr[t].ctx IN
  /\ pc[t] = "G_input"
  /\ IF SessionUnusable(o)
       THEN /\ ReturnWith(t, ErrorRet("Error: Invalid handle or model not loaded"))
            /\ UNCHANGED <<heap, engine>>
       ELSE \E p \in prompts, m \in maxTokenArgs, sp \in samplings :
              IF p = ""
                THEN /\ ReturnWith(t, ErrorRet("Error: Empty prompt"))
                     /\ UNCHANGED <<heap, engine>>
                ELSE LET cap == MaxInputTokens(engine[o].n_ctx)
                         n == TokenizeCount(p, cap)
                     IN /\ engine' = [engine EXCEPT ![o].kv = ClearMemory(@)]
                        /\ IF n < 0
                             THEN /\ heap' = [heap EXCEPT ![o].tokens =
                                                [k \in 1..cap |-> 0]]
                                  /\ ReturnWith(t, ErrorRet("Error: Tokenization failed"))
                             ELSE /\ heap' = [heap EXCEPT ![o].tokens = TokensOf(p)]
                                  /\ fr' = [fr EXCEPT ![t].prompt = p,
                                                      ![t].argMaxTokens = m,
                                                      ![t].maxTokens = NormMaxTokens(m),
                                                      ![t].sampling = sp,
                                                      ![t].prior = heap[o].tokens # <<>>,
                                                      ![t].n_tokens = n]
                                  /\ Goto(t, "G_prefill")
  /\ UNCHANGED <<regVars, g_contexts_mutex, initVars, g_init_mutex, nextObj,
                 ghostVars, crashed>>

\* int max_gen_tokens = std::min(maxTokens, llama_n_ctx(ctx->context) - n_tokens)
MaxGenTokensUncapped(maxTokens, n_ctx, n_tokens) == maxTokens
MaxGenTokens(maxTokens, n_ctx, n_tokens) == Min(maxTokens, n_ctx - n_tokens)

\* batch.pos[i] = i for the n prompt tokens, lines 241-247
PrefillPos(n) == [k \in 1..n |-> k - 1]

\* lines 238-265: the prompt batch (positions 0..n_tokens-1) is decoded; a
\* non-zero result is an error; otherwise the ceiling is computed
GenPrefill(t) ==
  LET o == fr[t].ctx
      n == fr[t].n_tokens
  IN
  /\ pc[t] = "G_prefill"
  /\ ~ObjGone(o)
  /\ \/ /\ StopWith(t, ErrorRet("Error: Failed to decode prompt"), "prefill_failed")
        /\ UNCHANGED engine
     \/ /\ fr' = [fr EXCEPT ![t].n_ctx = engine[o].n_ctx,
                            ![t].batch_n = n,
                            ![t].pos = PrefillPos(n),
                            ![t].max_gen_tokens =
                               MaxGenTokens(fr[t].maxTokens, engine[o].n_ctx, n),
                            ![t].i = 0]
        /\ engine' = [engine EXCEPT ![o].kv =
                        Decoded(@, SubSeq(heap[o].tokens, 1, n), PrefillPos(n))]
        /\ Goto(t, "G_loop")
  /\ UNCHANGED <<regVars, g_contexts_mutex, initVars, g_init_mutex, heap,
                 nextObj, ghostVars, crashed>>

\* for (int i = 0; i < max_gen_tokens; i++)
LoopContinuesInclusive(i, max_gen_tokens) == i <= max_gen_tokens
LoopContinues(i, max_gen_tokens) == i < max_gen_tokens

\* the loop is left at its bound: llama_batch_free; return result
GenLoopEnd(t) ==
  /\ pc[t] = "G_loop"
  /\ ~LoopContinues(fr[t].i, fr[t].max_gen_tokens)
  /\ StopWith(t, TextRet(fr[t].result), "bound")
  /\ UNCHANGED <<regVars, g_contexts_mutex, initVars, g_init_mutex, heap,
                 nextObj, engine, ghostVars, crashed>>

\* batch.pos[0] = ctx->tokens.size(), read before the push_back
NextPosAfterPush(tokens) == Len(tokens) + 1
NextPos(tokens) == Len(tokens)

\* a break out of the loop falls to line 308: return the text gathered so far
PartialTextDropped(result) == ErrorRet("Error: Exception during text generation")
PartialText(result) == TextRet(result)

\* one iteration of the loop, lines 269-304
GenStep(t) ==
  LET o == fr[t].ctx
      new_token == sample_token_greedy(Logits(KvTokens(engine[o].kv)))
      piece == PieceOf(new_token)
      at == NextPos(heap[o].tokens)
  IN
  /\ pc[t] = "G_loop"
  /\ LoopContinues(fr[t].i, fr[t].max_gen_tokens)
  /\ ~ObjGone(o)
  /\ \/ \* llama_get_logits_ith gives nullptr: break
        /\ StopWith(t, PartialText(fr[t].result), "no_logits")
        /\ UNCHANGED <<heap, engine>>
     \/ \* the selected token is an end-of-generation token: break
        /\ IsEog(new_token)
        /\ StopWith(t, TextRet(fr[t].result), "eog")
        /\ UNCHANGED <<heap, engine>>
     \/ \* result.append throws std::bad_alloc: caught
        /\ ~IsEog(new_token)
        /\ piece # <<>>
        /\ StopWith(t, ErrorRet("Error: Exception during text generation"), "exception")
        /\ UNCHANGED <<heap, engine>>
     \/ \* the token is appended and pushed; llama_decode fails: break
        /\ ~IsEog(new_token)
        /\ heap' = [heap EXCEPT ![o].tokens = Append(@, new_token)]
        /\ StopWith(t, PartialText(fr[t].result \o piece), "decode_failed")
        /\ UNCHANGED engine
     \/ \* the token is appended, pushed and decoded; i++
        /\ ~IsEog(new_token)
        /\ heap' = [heap EXCEPT ![o].tokens = Append(@, new_token)]
        /\ engine' = [engine EXCEPT ![o].kv = Decoded(@, <<new_token>>, <<at>>)]
        /\ fr' = [fr EXCEPT ![t].result = @ \o piece,
                            ![t].batch_n = 1,
                            ![t].pos = Append(@, at),
                            ![t].i = @ + 1]
        /\ UNCHANGED pc
  /\ UNCHANGED <<regVars, g_contexts_mutex, initVars, g_init_mutex, nextObj,
                 ghostVars, crashed>>

(* ========================= nativeGetModelInfo ========================== *)
\* a caller thread enters nativeGetModelInfo(handle);
\* if (handle == 0) return "Error: Invalid parameters"
DescribeCall(t) ==
  /\ pc[t] = "idle"
  /\ \E h \in HandleArgs :
       LET f == [IdleFrame EXCEPT !.op = "desc", !.handle = h,
                                  !.after = (h \in cleaned)]
       IN IF h = 0
            THEN /\ fr' = [fr EXCEPT ![t] =
                            [f EXCEPT !.ret = ErrorRet("Error: Invalid parameters")]]
                 /\ Goto(t, "ret")
            ELSE /\ fr' = [fr EXCEPT ![t] = f]
                 /\ Goto(t, "I_lookup")
  /\ UNCHANGED <<regVars, g_contexts_mutex, initVars, g_init_mutex, heap,
                 nextObj, engine, ghostVars, crashed>>

\* LlamaContext* ctx = get_context(handle);
DescribeLookup(t) ==
  /\ pc[t] = "I_lookup"
  /\ ContextsLockAvailable
  /\ fr' = [fr EXCEPT ![t].ctx = get_context(fr[t].handle)]
  /\ Goto(t, "I_report")
  /\ UNCHANGED <<regVars, g_contexts_mutex, initVars, g_init_mutex, heap,
                 nextObj, engine, ghostVars, crashed>>

\* lines 327-345: the null checks, then the report built from the engine's
\* answers
DescribeReportClearsHistory(t) ==
  LET o == fr[t].ctx IN
  /\ pc[t] = "I_report"
  /\ IF SessionUnusable(o)
       THEN /\ ReturnWith(t, ErrorRet("Error: No model loaded for this handle"))
            /\ UNCHANGED heap
       ELSE /\ ReturnWith(t, ReportRet([handle |-> fr[t].handle,
                                        n_vocab |-> NVocab,
                                        n_ctx |-> engine[o].n_ctx]))
            /\ heap' = [heap EXCEPT ![o].tokens = <<>>]
  /\ UNCHANGED <<regVars, g_contexts_mutex, initVars, g_init_mutex,
                 nextObj, engine, ghostVars, crashed>>
DescribeReport(t) ==
  LET o == fr[t].ctx IN
  /\ pc[t] = "I_report"
  /\ IF SessionUnusable(o)
       THEN ReturnWith(t, ErrorRet("Error: No model loaded for this handle"))
       ELSE ReturnWith(t, ReportRet([handle |-> fr[t].handle, n_vocab |-> NVocab,
                                     n_ctx |-> engine[o].n_ctx]))
  /\ UNCHANGED <<regVars, g_contexts_mutex, initVars, g_init_mutex, heap,
                 nextObj, engine, ghostVars, crashed>>

(* ================ use of a session that has been destroyed ============= *)
\* generate or describe holds a raw pointer whose object a concurrent cleanup
\* has destroyed (or is destroying) and reads it or hands it to the engine:
\* undefined behaviour.  The process dies, or the call returns something
\* arbitrary.
TouchesDestroyed(t) ==
  LET o == fr[t].ctx IN
  \/ pc[t] \in {"G_input", "I_report"} /\ o # NULL /\ heap[o].freed
  \/ pc[t] = "G_prefill" /\ ObjGone(o)
  \/ pc[t] = "G_loop" /\ LoopContinues(fr[t].i, fr[t].max_gen_tokens) /\ ObjGone(o)

UseAfterDestroy(t) ==
  /\ TouchesDestroyed(t)
  /\ \/ crashed' = TRUE /\ UNCHANGED <<pc, fr>>
     \/ ReturnWith(t, [kind |-> "undefined", val |-> 0]) /\ UNCHANGED crashed
  /\ UNCHANGED <<regVars, g_contexts_mutex, initVars, g_init_mutex, heap,
                 nextObj, engine, ghostVars>>

(* ============================== return ================================= *)
\* what is kept of an object that a failed load made and destroyed, once
\* the load is back in its caller
Reclaimed == [h |-> [NewLlamaContext EXCEPT !.freed = TRUE], e |-> NoEngine,
              log |-> <<>>]

\* control is back in the caller; a returned cleanup of an issued handle is
\* remembered
Return(t) ==
  /\ pc[t] = "ret"
  /\ cleaned' = IF fr[t].op = "clean" /\ fr[t].after
                  THEN cleaned \cup {fr[t].handle} ELSE cleaned
  /\ IF fr[t].op = "load" /\ fr[t].ctx # NULL
       THEN SetObj(fr[t].ctx, Reclaimed)
       ELSE UNCHANGED <<heap, engine, relLog>>
  /\ pc' = [pc EXCEPT ![t] = "idle"]
  /\ fr' = [fr EXCEPT ![t] = IdleFrame]
  /\ UNCHANGED <<regVars, g_contexts_mutex, initVars, g_init_mutex,
                 nextObj, issued, crashed>>

Step(t) ==
  \/ LoadCall(t) \/ LoadInitLock(t) \/ LoadBackendInit(t)
  \/ LoadBuild(t, MaxLoads, Paths, CtxSizes, ThreadArgs, HwThreads) \/ LoadRegister(t)
  \/ DtorCheckContext(t) \/ DtorFreeContext(t) \/ DtorCheckModel(t)
  \/ DtorFreeModel(t) \/ DtorClearTokens(t) \/ DtorDeallocate(t)
  \/ CleanupCall(t) \/ CleanupLock(t) \/ CleanupErase(t) \/ CleanupUnlock(t)
  \/ GenCall(t) \/ GenLookup(t) \/ GenPrepare(t, Prompts \ {"null"}, MaxTokenArgs, Samplings)
  \/ GenPrefill(t) \/ GenLoopEnd(t) \/ GenStep(t)
  \/ DescribeCall(t) \/ DescribeLookup(t) \/ DescribeReport(t)
  \/ UseAfterDestroy(t)
  \/ Return(t)

Next == ~crashed /\ UNCHANGED probe /\ \E t \in Threads : Step(t)

Spec == Init /\ [][Next]_vars

\* One caller thread making its calls one after another, with the wider
\* inputs: no call overlaps another, so no session is used after its
\* destruction.
StepSeq(t) ==
  \/ LoadCall(t) \/ LoadInitLock(t) \/ LoadBackendInit(t)
  \/ LoadBuild(t, SeqLoads, Paths, SeqCtxSizes, ThreadArgs, HwThreads) \/ LoadRegister(t)
  \/ DtorCheckContext(t) \/ DtorFreeContext(t) \/ DtorCheckModel(t)
  \/ DtorFreeModel(t) \/ DtorClearTokens(t) \/ DtorDeallocate(t)
  \/ CleanupCall(t) \/ CleanupLock(t) \/ CleanupErase(t) \/ CleanupUnlock(t)
  \/ GenCall(t) \/ GenLookup(t)
  \/ GenPrepare(t, Prompts \ {"null"}, SeqMaxTokenArgs, SeqSamplings)
  \/ GenPrefill(t) \/ GenLoopEnd(t) \/ GenStep(t)
  \/ DescribeCall(t) \/ DescribeLookup(t) \/ DescribeReport(t)
  \/ Return(t)

NextSeq == ~crashed /\ UNCHANGED probe /\ StepSeq(1)

SpecSeq == Init /\ [][NextSeq]_vars

\* Several caller threads again, with room for one session, and with the
\* scheduling spelled out: a thread that can take a step of its call
\* eventually takes it (the operating system runs every runnable thread), and
\* a thread waiting for a mutex that is free again and again eventually gets
\* it.
StepLive(t) ==
  \/ LoadCall(t) \/ LoadInitLock(t) \/ LoadBackendInit(t)
  \/ LoadBuild(t, SeqLoads, Paths, CtxSizes, ThreadArgs, HwThreads)
  \/ LoadRegister(t)
  \/ DtorCheckContext(t) \/ DtorFreeContext(t) \/ DtorCheckModel(t)
  \/ DtorFreeModel(t) \/ DtorClearTokens(t) \/ DtorDeallocate(t)
  \/ CleanupCall(t) \/ CleanupLock(t) \/ CleanupErase(t) \/ CleanupUnlock(t)
  \/ GenCall(t) \/ GenLookup(t)
  \/ GenPrepare(t, Prompts \ {"null"}, MaxTokenArgs, Samplings)
  \/ GenPrefill(t) \/ GenLoopEnd(t) \/ GenStep(t)
  \/ DescribeCall(t) \/ DescribeLookup(t) \/ DescribeReport(t)
  \/ UseAfterDestroy(t)
  \/ Return(t)

\* the steps at which thread t takes g_init_mutex or g_contexts_mutex
Acquire(t) ==
  \/ LoadInitLock(t) \/ LoadRegister(t) \/ CleanupLock(t)
  \/ GenLookup(t) \/ DescribeLookup(t)

NextLive == ~crashed /\ UNCHANGED probe /\ \E t \in Threads : StepLive(t)

SpecLive ==
  /\ Init /\ [][NextLive]_vars
  /\ \A t \in Threads :
       /\ WF_vars(~crashed /\ UNCHANGED probe /\ StepLive(t))
       /\ SF_vars(~crashed /\ UNCHANGED probe /\ Acquire(t))

\* The parameter computation of load and the greedy selection, each applied
\* on its own to arguments of the full range.
progVars == <<pc, fr, g_contexts, g_contexts_mutex, g_next_handle,
              g_backend_initialized, g_init_mutex, heap, nextObj, engine,
              backendInits, issued, cleaned, relLog, crashed>>

\* lines 121-157 for one choice of contextSize, threads and hardware
ProbeContextParams ==
  /\ \E cs \in SeqCtxSizes, th \in ProbeThreadArgs, hw \in ProbeHwThreads :
       probe' = [fn |-> "ContextParams", arg |-> <<cs, th, hw>>,
                 res |-> ContextParams(cs, th, hw)]
  /\ UNCHANGED progVars

\* sample_token_greedy for one score vector over the vocabulary
ProbeGreedy ==
  /\ \E logits \in [Vocab -> ProbeScores] :
       probe' = [fn |-> "sample_token_greedy", arg |-> logits,
                 res |-> sample_token_greedy(logits)]
  /\ UNCHANGED progVars

NextFn == ProbeContextParams \/ ProbeGreedy

SpecFn == Init /\ [][NextFn]_vars

(* ======================================================================= *)
(*                              the claims                                 *)
(* ======================================================================= *)
Live(h) == g_contexts[h] # NULL
Registered(o) == heap[o].handle # 0
FullRelease == <<"ctx", "model", "tokens", "discard">>
IsPrefix(s, u) == Len(s) <= Len(u) /\ \A k \in 1..Len(s) : s[k] = u[k]
Destroying == {"C_erase", "D_chk_ctx", "D_free_ctx", "D_chk_model",
               "D_free_model", "D_clear", "D_dealloc"}
\* thread t takes a step of a call of kind op
StepOf(t, op) == pc'[t] # pc[t] /\ (fr[t].op = op \/ fr'[t].op = op)

\* C1: every handle load returns is positive and greater than every handle
\* issued before it to any thread, so it differs from all earlier ones, also
\* destroyed ones, and each thread's handles increase in the order it got
\* them; a handle leads only to the session it was issued for and two
\* sessions never carry the same handle.
C1_HandlesUniqueIncreasing ==
  /\ \A k \in 1..Len(issued) : issued[k].h > 0
  /\ \A j, k \in 1..Len(issued) : j < k => issued[j].h < issued[k].h
  /\ \A j, k \in 1..Len(issued) :
        (j < k /\ issued[j].t = issued[k].t) => issued[j].h < issued[k].h
  /\ \A t \in Threads :
        (pc[t] = "ret" /\ fr[t].op = "load" /\ fr[t].ret.val # 0) =>
          /\ fr[t].ret.val > 0
          /\ \E k \in 1..Len(issued) : issued[k] = [h |-> fr[t].ret.val, t |-> t]
  /\ \A o \in Objs : Registered(o) => g_contexts[heap[o].handle] \in {o, NULL}
  /\ \A o1, o2 \in Objs :
        (Registered(o1) /\ Registered(o2) /\ o1 # o2) => heap[o1].handle # heap[o2].handle

\* C1 witness: a second handle was issued after the first was destroyed, and
\* its session is live
C1_Witness ==
  /\ Len(issued) >= 2
  /\ issued[1].h \in cleaned
  /\ Live(issued[2].h)

\* C2: every handle present in the registry maps to an object whose model
\* and context are non-null and held by the engine
C2_RegisteredComplete ==
  \A h \in DOMAIN g_contexts :
    Live(h) =>
      LET o == g_contexts[h] IN
      /\ heap[o].alloc /\ ~heap[o].freed
      /\ heap[o].model # NULL /\ heap[o].context # NULL
      /\ engine[o].model = "live" /\ engine[o].context = "live"

\* C2 witness: one session is registered while another is being destroyed
C2_Witness ==
  \E h \in DOMAIN g_contexts, t \in Threads :
    Live(h) /\ pc[t] = "D_free_model"

\* C3: a load that returns 0 has changed the registry in none of its steps
\* and leaves no model or context it acquired held by the engine; a load
\* with a null or empty path returns 0; a load returns a handle only for a
\* complete session
C3_FailedLoadLeavesNothing ==
  /\ [][\A t \in Threads :
          (StepOf(t, "load") /\ ~(pc'[t] = "ret" /\ fr'[t].ret.val # 0))
            => g_contexts' = g_contexts]_vars
  /\ [](\A t \in Threads :
          (pc[t] = "ret" /\ fr[t].op = "load") =>
            /\ PathInvalid(fr[t].path) => fr[t].ret.val = 0
            /\ (fr[t].ret.val = 0 /\ fr[t].ctx # NULL) =>
                 /\ engine[fr[t].ctx].model # "live"
                 /\ engine[fr[t].ctx].context # "live"
                 /\ heap[fr[t].ctx].freed
                 /\ ~Registered(fr[t].ctx)
                 /\ \A h \in DOMAIN g_contexts : g_contexts[h] # fr[t].ctx
            /\ fr[t].ret.val # 0 => Live(fr[t].ret.val) \/ fr[t].ret.val \in IssuedHandles)

\* C3 witness: a load failed after it had acquired a model and a context,
\* while another session is registered
C3_Witness ==
  \E t \in Threads, h \in DOMAIN g_contexts :
    /\ pc[t] = "ret" /\ fr[t].op = "load" /\ fr[t].ret.val = 0
    /\ fr[t].ctx # NULL
    /\ engine[fr[t].ctx].modelFrees = 1 /\ engine[fr[t].ctx].ctxFrees = 1
    /\ Live(h)

\* C4: a generate or describe call on h that starts after a cleanup of the
\* issued handle h has returned returns an error string, and h is never in
\* the registry again
C4_DestroyedHandleStaysInvalid ==
  /\ \A h \in cleaned : ~Live(h)
  /\ \A t \in Threads :
        (pc[t] = "ret" /\ fr[t].op \in {"gen", "desc"} /\ fr[t].after) =>
          fr[t].ret.kind = "error" /\ ~Live(fr[t].handle)

\* C4 witness: generate and describe both returned on a destroyed handle
C4_Witness ==
  \E t, u \in Threads :
    /\ pc[t] = "ret" /\ fr[t].op = "gen" /\ fr[t].after
    /\ fr[t].ret = ErrorRet("Error: Invalid handle or model not loaded")
    /\ pc[u] = "ret" /\ fr[u].op = "desc" /\ fr[u].after
    /\ fr[u].handle = fr[t].handle

\* C5: a cleanup call destroys only the session registered under the handle
\* it was given, so never for handle 0, a handle not issued or one already
\* destroyed; and outside that destruction no step of a cleanup call changes
\* the registry, the counter, an object or what the engine holds
C5_InvalidCleanupNoOp ==
  /\ [](\A t \in Threads :
          pc[t] \in Destroying =>
            /\ fr[t].handle # 0
            /\ fr[t].handle \in IssuedHandles
            /\ fr[t].handle \notin cleaned
            /\ fr[t].ctx # NULL
            /\ heap[fr[t].ctx].handle = fr[t].handle)
  /\ [][\A t \in Threads :
          (StepOf(t, "clean") /\ pc[t] \notin Destroying /\ pc'[t] \notin Destroying)
            => UNCHANGED <<g_contexts, g_next_handle, heap, engine, relLog>>]_vars

\* C5 witness: a second cleanup of an already destroyed handle has returned
\* while another session is live
C5_Witness ==
  \E t \in Threads, h \in DOMAIN g_contexts :
    /\ pc[t] = "ret" /\ fr[t].op = "clean"
    /\ fr[t].handle \in cleaned
    /\ Live(h)

\* C6: the engine is asked at most once to release the context, and at most
\* once to release the model, of any object
C6_NoDoubleFree ==
  \A o \in Objs : engine[o].ctxFrees <= 1 /\ engine[o].modelFrees <= 1

\* C6 witness: two threads have both returned from cleanup of the same
\* issued handle
C6_Witness ==
  \E t, u \in Threads, o \in Objs :
    /\ t # u
    /\ pc[t] = "ret" /\ fr[t].op = "clean"
    /\ pc[u] = "ret" /\ fr[u].op = "clean"
    /\ fr[t].handle = fr[u].handle /\ fr[t].after /\ fr[u].after
    /\ heap[o].handle = fr[t].handle
    /\ engine[o].ctxFrees = 1 /\ engine[o].modelFrees = 1

\* C7: the release events of a session come in the order context, model,
\* token history, discard; the memory is given back only after all three;
\* the model is never released while the context is held
C7_ReleaseOrder ==
  \A o \in Objs :
    /\ Registered(o) => IsPrefix(relLog[o], FullRelease)
    /\ (Registered(o) /\ heap[o].freed) => relLog[o] = FullRelease
    /\ engine[o].model = "freed" => engine[o].context # "live"

\* C7 witness: a session has been destroyed completely
C7_Witness ==
  \E o \in Objs : Registered(o) /\ relLog[o] = FullRelease

\* C8: llama_backend_init runs at most once, and has run before any load
\* call is past the init block, which is before it loads a model
C8_BackendInitOnce ==
  /\ backendInits <= 1
  /\ g_backend_initialized => backendInits = 1
  /\ \A t \in Threads :
        pc[t] \in {"L_build", "L_reg"} => g_backend_initialized /\ backendInits = 1
  /\ \A o \in Objs : engine[o].model # "none" => backendInits = 1

\* C8 witness: two load calls are past the init block at the same time
C8_Witness ==
  \E t, u \in Threads :
    t # u /\ pc[t] = "L_build" /\ pc[u] = "L_build" /\ backendInits = 1

\* the ceiling the claim states for a generate call with argument m on a
\* session of context length n_ctx and a prompt of n tokens
ClaimedCeiling(m, n_ctx, n) ==
  Min(IF m > 0 THEN m ELSE DefaultMaxTokens, n_ctx - n)

\* C9: inside the decode loop the number of tokens generated so far, which
\* is the number pushed on the history after the prompt, never exceeds
\* min(M, context length - prompt tokens) with M = maxTokens if positive and
\* 256 otherwise; the text has no more fragments than tokens; the text a
\* call returns from the loop has no more fragments than that ceiling; and
\* the loop's bound is that ceiling, so maxTokens = 0 runs as 256 does
C9_GenerationCeiling ==
  /\ [](\A t \in Threads :
          (pc[t] = "G_loop" /\ ~ObjGone(fr[t].ctx)) =>
            LET o == fr[t].ctx
                ceil == ClaimedCeiling(fr[t].argMaxTokens, engine[o].n_ctx,
                                       fr[t].n_tokens)
            IN /\ fr[t].max_gen_tokens = ceil
               /\ fr[t].i <= ceil
               /\ Len(heap[o].tokens) - fr[t].n_tokens = fr[t].i
               /\ Len(fr[t].result) <= fr[t].i)
  /\ [][\A t \in Threads :
          (pc[t] = "G_loop" /\ pc'[t] = "ret" /\ fr'[t].ret.kind = "text") =>
            /\ Len(fr'[t].ret.val) <=
                 ClaimedCeiling(fr[t].argMaxTokens, fr[t].n_ctx, fr[t].n_tokens)
            /\ ~ObjGone(fr[t].ctx) =>
                 Len(heap'[fr[t].ctx].tokens) - fr[t].n_tokens <=
                   ClaimedCeiling(fr[t].argMaxTokens, fr[t].n_ctx, fr[t].n_tokens)]_vars

\* C9 witness: a call with maxTokens = 0 has generated 256 tokens on a
\* session whose context has room for more
C9_Witness ==
  \E t \in Threads :
    /\ pc[t] = "G_loop" /\ fr[t].argMaxTokens = 0
    /\ fr[t].i = DefaultMaxTokens
    /\ fr[t].n_ctx - fr[t].n_tokens > DefaultMaxTokens

\* C10: the token history of a session whose context exists is never longer
\* than the context length the session was configured with
C10_HistoryWithinContext ==
  \A o \in Objs :
    (heap[o].alloc /\ engine[o].context = "live") =>
      Len(heap[o].tokens) <= engine[o].n_ctx

\* C10 witness: a generate call has returned its text with the history of
\* its session exactly as long as the context
C10_Witness ==
  \E t \in Threads :
    /\ pc[t] = "ret" /\ fr[t].op = "gen" /\ fr[t].ret.kind = "text"
    /\ g_contexts[fr[t].handle] # NULL
    /\ engine[g_contexts[fr[t].handle]].context = "live"
    /\ Len(heap[g_contexts[fr[t].handle]].tokens) =
         engine[g_contexts[fr[t].handle]].n_ctx

\* the session a generate call of thread t works on
GenObj(t) == fr[t].ctx

\* the token the loop of thread t would select next
NextToken(t) == sample_token_greedy(Logits(KvTokens(engine[GenObj(t)].kv)))

\* C11: when the selected token is the end-of-sequence token the call
\* stops in that very step, returning the text it had and leaving the
\* history and the attention cache as they were; so inside a call no
\* end-of-sequence token is ever among the tokens pushed after the prompt,
\* among the tokens decoded after the prompt, or in the text
C11_EogNeverEmitted ==
  /\ [](\A t \in Threads :
          (pc[t] = "G_loop" /\ ~ObjGone(GenObj(t))) =>
            /\ \A k \in (fr[t].n_tokens + 1)..Len(heap[GenObj(t)].tokens) :
                 heap[GenObj(t)].tokens[k] # EogToken
            /\ \A k \in (fr[t].n_tokens + 1)..Len(engine[GenObj(t)].kv) :
                 engine[GenObj(t)].kv[k].tok # EogToken
            /\ \A k \in 1..Len(fr[t].result) : fr[t].result[k] # EogToken)
  /\ [][\A t \in Threads :
          ( /\ pc[t] = "G_loop" /\ ~ObjGone(GenObj(t))
            /\ fr[t].i < fr[t].max_gen_tokens
            /\ NextToken(t) = EogToken
            /\ <<pc[t], fr[t]>>' # <<pc[t], fr[t]>> ) =>
            /\ pc'[t] = "ret"
            /\ fr'[t].ret = TextRet(fr[t].result)
            /\ heap' = heap /\ engine' = engine]_vars

\* C11 witness: a call has stopped at the end-of-sequence token after it had
\* generated a token, and the history ends with that generated token
C11_Witness ==
  \E t \in Threads :
    /\ pc[t] = "ret" /\ fr[t].op = "gen" /\ fr[t].stop = "eog"
    /\ g_contexts[fr[t].handle] # NULL
    /\ LET o == g_contexts[fr[t].handle]
       IN /\ Len(heap[o].tokens) = Len(TokensOf("ab")) + 1
          /\ sample_token_greedy(Logits(KvTokens(engine[o].kv))) = EogToken

\* what the model file alone makes of a token sequence: greedy selection
\* repeated from s.hist, at most s.left times, stopping at the
\* end-of-sequence token.  GreedyBlock does up to k selections; GreedyText
\* runs block after block (which keeps the evaluation shallow).
RECURSIVE GreedyBlock(_, _)
GreedyBlock(s, k) ==
  IF k = 0 \/ s.left <= 0 \/ s.done THEN s
  ELSE LET tok == sample_token_greedy(Logits(s.hist))
       IN IF tok = EogToken THEN [s EXCEPT !.done = TRUE]
          ELSE GreedyBlock([hist |-> Append(s.hist, tok),
                            text |-> s.text \o PieceOf(tok),
                            left |-> s.left - 1, done |-> FALSE], k - 1)

RECURSIVE GreedyText(_)
GreedyText(s) ==
  IF s.left <= 0 \/ s.done THEN s.text ELSE GreedyText(GreedyBlock(s, 16))

\* the text determined by the prompt, the maxTokens argument and the context
\* length of the session, and by nothing else
ExpectedText(prompt, m, n_ctx) ==
  GreedyText([hist |-> TokensOf(prompt), text |-> <<>>,
              left |-> ClaimedCeiling(m, n_ctx, Len(TokensOf(prompt))),
              done |-> FALSE])

C13_FailureResults ==
  [][\A t \in Threads :
       /\ (pc[t] = "G_prefill" /\ pc'[t] = "ret") =>
            /\ fr'[t].stop = "prefill_failed"
            /\ fr'[t].ret = ErrorRet("Error: Failed to decode prompt")
       /\ (pc[t] = "G_loop" /\ pc'[t] = "ret" /\ fr'[t].stop = "no_logits") =>
            fr'[t].ret = TextRet(fr[t].result)
       /\ (pc[t] = "G_loop" /\ pc'[t] = "ret" /\ fr'[t].stop = "decode_failed") =>
            /\ fr'[t].ret = TextRet(fr[t].result \o PieceOf(NextToken(t)))
            /\ heap'[GenObj(t)].tokens =
                 Append(heap[GenObj(t)].tokens, NextToken(t))]_vars

\* C13 witness: a call has returned two fragments after the engine rejected
\* the decode of its second generated token
C13_Witness ==
  \E t \in Threads :
    /\ pc[t] = "ret" /\ fr[t].stop = "decode_failed"
    /\ fr[t].ret.kind = "text" /\ Len(fr[t].ret.val) = 2

\* C14: no step of a describe call, whether the call ends with a report or
\* with an error string, changes the registry, the next-handle counter, or
\* any session's model, context, token history or engine resources
C14_DescribeReadOnly ==
  [][\A t \in Threads :
       StepOf(t, "desc") =>
         /\ g_contexts' = g_contexts
         /\ g_next_handle' = g_next_handle
         /\ heap' = heap
         /\ engine' = engine]_vars

\* C14 witness: describe has returned its report for a session that holds a
\* token history, while another describe has returned an error string
C14_Witness ==
  \E t, u \in Threads :
    /\ pc[t] = "ret" /\ fr[t].op = "desc" /\ fr[t].ret.kind = "report"
    /\ g_contexts[fr[t].handle] # NULL
    /\ heap[g_contexts[fr[t].handle]].tokens # <<>>
    /\ pc[u] = "ret" /\ fr[u].op = "desc" /\ fr[u].ret.kind = "error"

\* C15: for every threads argument and every detected hardware parallelism
\* the two thread counts load configures are equal and positive: the
\* argument when it is positive, the detected number when the argument is -1
\* and the number is positive, and 4 otherwise
C15_ThreadCounts ==
  probe.fn = "ContextParams" =>
    LET th == probe.arg[2]
        hw == probe.arg[3]
    IN /\ probe.res.n_threads = probe.res.n_threads_batch
       /\ probe.res.n_threads > 0
       /\ probe.res.n_threads =
            (IF th > 0 THEN th ELSE IF th = -1 /\ hw > 0 THEN hw ELSE 4)

\* C15 witness: threads = -1 where detection yields zero gave 4 and 4
C15_Witness ==
  /\ probe.fn = "ContextParams"
  /\ probe.arg[2] = -1 /\ probe.arg[3] = 0
  /\ probe.res.n_threads = 4 /\ probe.res.n_threads_batch = 4

\* C19: for every score vector over the vocabulary greedy selection returns
\* a token id whose score no other score exceeds, and no lower id has that
\* score
C19_GreedyArgmax ==
  probe.fn = "sample_token_greedy" =>
    /\ probe.res \in Vocab
    /\ \A i \in Vocab : probe.arg[i] <= probe.arg[probe.res]
    /\ \A i \in Vocab : probe.arg[i] = probe.arg[probe.res] => probe.res <= i

\* C19 witness: the maximum score is shared by ids 1 and 3, id 0 scores
\* less, and id 1 was returned
C19_Witness ==
  /\ probe.fn = "sample_token_greedy"
  /\ probe.arg[0] < probe.arg[1] /\ probe.arg[2] < probe.arg[1]
  /\ probe.arg[3] = probe.arg[1]
  /\ probe.res = 1

\* C16: no generate or describe call is at a statement that reads or writes
\* a session which a cleanup of another thread has released (or is
\* releasing), and no call has made such an access (the process has not died
\* of one, no call has returned its arbitrary result)
C16_NoUseAfterCleanup ==
  /\ \A t \in Threads : ~TouchesDestroyed(t)
  /\ ~crashed
  /\ \A t \in Threads : fr[t].ret.kind # "undefined"

\* C17: the prompt batch a generate call has handed to the engine (the call
\* is past the prefill and has not yet submitted a generated token) holds no
\* more tokens than the batch capacity the session's context was created
\* with, min(512, context length / 4)
C17_PrefillWithinBatch ==
  \A t \in Threads :
    (pc[t] = "G_loop" /\ fr[t].i = 0 /\ engine[GenObj(t)].context = "live") =>
      /\ engine[GenObj(t)].n_batch = Min(512, engine[GenObj(t)].n_ctx \div 4)
      /\ fr[t].batch_n <= engine[GenObj(t)].n_batch

\* C18: a call that has tokenized its prompt holds exactly the prompt tokens
\* as history and an empty attention cache, whatever an earlier call left;
\* in the loop the history is the prompt tokens followed by one token per
\* completed step, each step appending the token it selected; and the
\* attention cache holds exactly the history, the k-th token decoded at
\* position k-1
C18_HistoryRebuilt ==
  /\ [](\A t \in Threads :
          /\ (pc[t] = "G_prefill" /\ ~ObjGone(GenObj(t))) =>
               /\ heap[GenObj(t)].tokens = TokensOf(fr[t].prompt)
               /\ engine[GenObj(t)].kv = <<>>
          /\ (pc[t] = "G_loop" /\ ~ObjGone(GenObj(t))) =>
               LET tokens == heap[GenObj(t)].tokens
                   kv == engine[GenObj(t)].kv
               IN /\ Len(tokens) = fr[t].n_tokens + fr[t].i
                  /\ SubSeq(tokens, 1, fr[t].n_tokens) = TokensOf(fr[t].prompt)
                  /\ Len(kv) = Len(tokens)
                  /\ \A k \in 1..Len(kv) :
                       kv[k].tok = tokens[k] /\ kv[k].pos = k - 1
                  /\ fr[t].pos = [k \in 1..Len(kv) |-> k - 1])
  /\ [][\A t \in Threads :
          (pc[t] = "G_loop" /\ ~ObjGone(GenObj(t))) =>
            \/ heap'[GenObj(t)].tokens = heap[GenObj(t)].tokens
            \/ heap'[GenObj(t)].tokens =
                 Append(heap[GenObj(t)].tokens, NextToken(t))]_vars

\* C18 witness: a call that found an earlier call's history in its session
\* has completed two steps of its loop
C18_Witness ==
  \E t \in Threads : pc[t] = "G_loop" /\ fr[t].prior /\ fr[t].i = 2

\* thread t is inside a call that has not returned yet
InCall(t) == pc[t] \notin {"idle", "ret"}

\* C20: every call that has been entered eventually returns
C20_EveryCallReturns ==
  \A t \in Threads : InCall(t) ~> (pc[t] = "ret")

\* what remains of C20 when the process is allowed to die of the use of a
\* destroyed session: every call returns unless the process has died; the
\* two mutexes are never held by one thread at once; and the loop counter
\* never passes the ceiling
ReturnsUnlessCrashed ==
  /\ \A t \in Threads : InCall(t) ~> (pc[t] = "ret" \/ crashed)
  /\ [](\A t \in Threads : ~(g_init_mutex = t /\ g_contexts_mutex = t))
  /\ [](\A t \in Threads :
          pc[t] = "G_loop" => fr[t].i <= fr[t].max_gen_tokens)

====
